---- MODULE Spec2Model ----
(***************************************************************************)
(* Request handling of the gallery backend (Express + Mongoose +           *)
(* Cloudinary): the Memory and Group routes, the upload middleware that    *)
(* runs in front of the Memory POST/PUT handlers, and the two external     *)
(* collaborators (record store, media host), whose calls may fail.         *)
(* Every await of a handler is a suspension point, so each handler is cut  *)
(* into one action per awaited call; handlers of different requests        *)
(* interleave at these points.                                             *)
(***************************************************************************)
EXTENDS Integers, Sequences, FiniteSets, TLC

\* Bounds of the model.
MaxRequests == 3        \* requests received in one behaviour

\* Requests being handled at the same time.
Slots == {"h1", "h2"}

\* A body field that the request does not carry (JavaScript undefined).
Absent == "undefined"

\* JavaScript truthiness of a string-or-undefined body field.
Truthy(v) == v \notin {Absent, ""}

\* req.body of POST /api/memories: every field, or the description missing.
CreateBodies ==
    { [title |-> "t1", date |-> "2024-01-01", description |-> "d1", special |-> "s1"],
      [title |-> "t2", date |-> "2024-02-02", description |-> Absent, special |-> Absent] }

\* req.body of PUT /api/memories/:id: the description alone, or every field
\* but an empty description.
UpdateBodies ==
    { [title |-> Absent, date |-> Absent, description |-> "d2", special |-> Absent],
      [title |-> "t2", date |-> "2024-02-02", description |-> "", special |-> "s2"] }

\* req.body of the Group routes.
GroupBodies ==
    { [name |-> "g1", description |-> "gd", memoryIds |-> <<1, 2>>],
      [name |-> "g2", description |-> Absent, memoryIds |-> Absent] }

\* An ObjectId the store never generated; generated ones count from 1.
UnknownId == 0

\* No uploaded file (req.file undefined).
NoFile == <<>>

\* public_id the media host gives the n-th upload, inside the fixed folder.
PublicId(n) == <<"memories", n>>

\* secure_url of the blob with public id pid.
Url(pid) == <<"https://res.cloudinary.com">> \o pid

\* A document that is not loaded.
NoDoc == [_id |-> 0]

VARIABLES
    rows,       \* Memory collection: _id -> document
    groups,     \* Group collection: _id -> document
    blobs,      \* public ids of the blobs live at the media host
    uploads,    \* number of public ids the media host has generated
    created,    \* number of Memory documents persisted so far
    gcreated,   \* number of Group documents persisted so far
    clock,      \* Date.now() when the last Memory document was built
    started,    \* requests received so far
    req,        \* per slot: the request being handled and its handler's locals
    listing     \* the last GET /api/memories response and the collection it read

vars == <<rows, groups, blobs, uploads, created, gcreated, clock, started, req, listing>>

\* A slot: the request (kind, id, body, image), the handler's position and
\* locals (pc, file, memory), the response status, and the record kept for the
\* properties: the document as loaded, the external calls made, the store and
\* the media host as they were when the request arrived, whether save() found
\* its document gone, whether another request was in flight meanwhile, and
\* whether this is the request received last.
IdleReq ==
    [ kind |-> "none", id |-> UnknownId, body |-> <<>>, image |-> FALSE, file |-> NoFile,
      pc |-> "idle", memory |-> NoDoc, loaded |-> NoDoc, status |-> 0,
      calls |-> <<>>, before |-> [rows |-> <<>>, blobs |-> {}], stale |-> FALSE,
      concurrent |-> FALSE, last |-> FALSE ]

\* Unused slots are taken in this order (they are interchangeable).
SlotBefore(q, p) == q = "h1" /\ p = "h2"

InFlight(p) == req[p].pc \notin {"idle", "done"}

Init ==
    /\ rows = <<>>
    /\ groups = <<>>
    /\ blobs = {}
    /\ uploads = 0
    /\ created = 0
    /\ gcreated = 0
    /\ clock = 0
    /\ started = 0
    /\ req = [p \in Slots |-> IdleReq]
    /\ listing = [status |-> 0, body |-> <<>>, of |-> <<>>]

\* Appends one external call to the log of the request in slot p.
Logged(r, op, arg, ok) == [r EXCEPT !.calls = Append(@, [op |-> op, arg |-> arg, ok |-> ok])]

\* The response of the handler in slot p: status code, handler finished.
Respond(r, code) == [r EXCEPT !.status = code, !.pc = "done"]

\* A request arrives and is routed. Routes with the upload middleware pass
\* through it first when the multipart body carries the image field.
Receive(p) ==
    /\ ~InFlight(p)
    /\ \A q \in Slots : req[q].pc = "idle" => ~SlotBefore(q, p)
    /\ started < MaxRequests
    /\ started' = started + 1
    /\ \E kind \in {"createMemory", "updateMemory", "deleteMemory",
                    "createGroup", "updateGroup", "deleteGroup"} :
       \E id \in (IF kind \in {"createMemory", "createGroup"} THEN {UnknownId}
                  ELSE IF kind \in {"updateGroup", "deleteGroup"} THEN UnknownId..gcreated
                  ELSE UnknownId..created) :
       \E hasFile \in (IF kind \in {"createMemory", "updateMemory"} THEN BOOLEAN
                       ELSE {FALSE}) :
       \E body \in (IF kind = "createMemory" THEN CreateBodies
                    ELSE IF kind = "updateMemory" THEN UpdateBodies
                    ELSE IF kind \in {"createGroup", "updateGroup"} THEN GroupBodies
                    ELSE {<<>>}) :
          /\ req' = [q \in Slots |->
                IF q = p
                THEN [ IdleReq EXCEPT
                         !.kind = kind,
                         !.id = id,
                         !.body = body,
                         !.image = hasFile,
                         !.pc = IF hasFile THEN "upload" ELSE "handler",
                         !.before = [rows |-> rows, blobs |-> blobs],
                         !.concurrent = \E o \in Slots \ {p} : InFlight(o),
                         !.last = TRUE ]
                ELSE IF InFlight(q) THEN [req[q] EXCEPT !.concurrent = TRUE, !.last = FALSE]
                ELSE [req[q] EXCEPT !.last = FALSE]]
    /\ UNCHANGED <<rows, groups, blobs, uploads, created, gcreated, clock, listing>>

\* upload.single('image'): multer hands the file to CloudinaryStorage, which
\* uploads it before the route handler runs. On success req.file carries the
\* blob's url (path) and public id (filename); on failure the error goes to
\* Express's default error handler and the route handler never runs.
Upload(p) ==
    /\ req[p].pc = "upload"
    /\ \/ /\ uploads' = uploads + 1
          /\ blobs' = blobs \cup {PublicId(uploads + 1)}
          /\ req' = [req EXCEPT ![p] =
                [Logged(@, "store", PublicId(uploads + 1), TRUE) EXCEPT
                    !.file = PublicId(uploads + 1), !.pc = "handler"]]
       \/ /\ req' = [req EXCEPT ![p] = Respond(Logged(@, "store", NoFile, FALSE), 500)]
          /\ UNCHANGED <<uploads, blobs>>
    /\ UNCHANGED <<rows, groups, created, gcreated, clock, started, listing>>

\* NewMemory with the two file properties exchanged (imageUrl from
\* req.file.filename, imagePublicId from req.file.path).
NewMemorySwapped(body, file, id, now) ==
    [ _id |-> id, title |-> body.title, date |-> body.date,
      description |-> body.description, special |-> body.special,
      imageUrl |-> file, imagePublicId |-> Url(file), createdAt |-> now ]

\* new Memory({...}): the document built by the POST handler. _id is generated
\* by the driver and createdAt defaults to Date.now.
NewMemory(body, file, id, now) ==
    [ _id |-> id, title |-> body.title, date |-> body.date,
      description |-> body.description, special |-> body.special,
      imageUrl |-> Url(file), imagePublicId |-> file, createdAt |-> now ]

\* memorySchema's required paths (a required string must be non-empty).
ValidMemory(doc) ==
    /\ Truthy(doc.title) /\ Truthy(doc.date) /\ Truthy(doc.description)
    /\ doc.imageUrl # NoFile /\ doc.imagePublicId # NoFile

\* CreateMemory without the req.file check: reading req.file.path of an
\* undefined req.file throws inside the try block, and the catch answers 500.
CreateMemoryUnchecked(p) ==
    /\ req[p].pc = "handler" /\ req[p].kind = "createMemory"
    /\ \/ /\ req[p].file = NoFile
          /\ req' = [req EXCEPT ![p] = Respond(@, 500)]
          /\ UNCHANGED <<rows, created, clock>>
       \/ /\ req[p].file # NoFile
          /\ \E now \in {clock, clock + 1} :
             LET doc == NewMemory(req[p].body, req[p].file, created + 1, now) IN
             /\ clock' = now
             /\ \/ /\ ValidMemory(doc)
                   /\ rows' = rows @@ (doc._id :> doc)
                   /\ created' = created + 1
                   /\ req' = [req EXCEPT ![p] =
                         Respond([Logged(@, "save", doc._id, TRUE) EXCEPT
                                     !.id = doc._id, !.memory = doc], 201)]
                \/ /\ req' = [req EXCEPT ![p] =
                         Respond([Logged(@, "save", doc._id, FALSE) EXCEPT !.memory = doc], 500)]
                   /\ UNCHANGED <<rows, created>>
    /\ UNCHANGED <<groups, blobs, uploads, gcreated, started, listing>>

\* POST /api/memories, after the upload middleware.
CreateMemory(p) ==
    /\ req[p].pc = "handler" /\ req[p].kind = "createMemory"
    /\ \/ /\ req[p].file = NoFile
          /\ req' = [req EXCEPT ![p] = Respond(@, 400)]
          /\ UNCHANGED <<rows, created, clock>>
       \/ /\ req[p].file # NoFile
          /\ \E now \in {clock, clock + 1} :
             LET doc == NewMemory(req[p].body, req[p].file, created + 1, now) IN
             /\ clock' = now
             /\ \/ /\ ValidMemory(doc)
                   /\ rows' = rows @@ (doc._id :> doc)
                   /\ created' = created + 1
                   /\ req' = [req EXCEPT ![p] =
                         Respond([Logged(@, "save", doc._id, TRUE) EXCEPT
                                     !.id = doc._id, !.memory = doc], 201)]
                \/ /\ req' = [req EXCEPT ![p] =
                         Respond([Logged(@, "save", doc._id, FALSE) EXCEPT !.memory = doc], 500)]
                   /\ UNCHANGED <<rows, created>>
    /\ UNCHANGED <<groups, blobs, uploads, gcreated, started, listing>>

\* DeleteMemoryFind looking the row up with findByIdAndDelete: the row is
\* removed before the blob is.
DeleteMemoryFindRemoving(p) ==
    /\ req[p].pc = "handler" /\ req[p].kind = "deleteMemory"
    /\ \/ /\ req' = [req EXCEPT ![p] = Respond(@, 500)]
          /\ UNCHANGED rows
       \/ /\ req[p].id \notin DOMAIN rows
          /\ req' = [req EXCEPT ![p] = Respond(@, 404)]
          /\ UNCHANGED rows
       \/ /\ req[p].id \in DOMAIN rows
          /\ rows' = [i \in DOMAIN rows \ {req[p].id} |-> rows[i]]
          /\ req' = [req EXCEPT ![p] =
                [Logged(@, "remove", req[p].id, TRUE) EXCEPT
                    !.memory = rows[req[p].id], !.loaded = rows[req[p].id],
                    !.pc = "destroy"]]
    /\ UNCHANGED <<groups, blobs, uploads, created, gcreated, clock, started, listing>>

\* DELETE /api/memories/:id up to its first await: Memory.findById.
DeleteMemoryFind(p) ==
    /\ req[p].pc = "handler" /\ req[p].kind = "deleteMemory"
    /\ \/ req' = [req EXCEPT ![p] = Respond(@, 500)]
       \/ /\ req[p].id \notin DOMAIN rows
          /\ req' = [req EXCEPT ![p] = Respond(@, 404)]
       \/ /\ req[p].id \in DOMAIN rows
          /\ req' = [req EXCEPT ![p] =
                [@ EXCEPT !.memory = rows[req[p].id], !.loaded = rows[req[p].id],
                          !.pc = "destroy"]]
    /\ UNCHANGED <<rows, groups, blobs, uploads, created, gcreated, clock, started, listing>>

\* await cloudinary.uploader.destroy(memory.imagePublicId) of the DELETE
\* handler: a rejection lands in the handler's catch.
DeleteMemoryDestroy(p) ==
    /\ req[p].pc = "destroy" /\ req[p].kind = "deleteMemory"
    /\ \/ /\ blobs' = blobs \ {req[p].memory.imagePublicId}
          /\ req' = [req EXCEPT ![p] =
                [Logged(@, "destroy", req[p].memory.imagePublicId, TRUE) EXCEPT !.pc = "remove"]]
       \/ /\ req' = [req EXCEPT ![p] =
                Respond(Logged(@, "destroy", req[p].memory.imagePublicId, FALSE), 500)]
          /\ UNCHANGED blobs
    /\ UNCHANGED <<rows, groups, uploads, created, gcreated, clock, started, listing>>

\* await Memory.findByIdAndDelete(req.params.id) and the response.
DeleteMemoryRemove(p) ==
    /\ req[p].pc = "remove" /\ req[p].kind = "deleteMemory"
    /\ \/ /\ rows' = [i \in DOMAIN rows \ {req[p].id} |-> rows[i]]
          /\ req' = [req EXCEPT ![p] = Respond(Logged(@, "remove", req[p].id, TRUE), 200)]
       \/ /\ req' = [req EXCEPT ![p] = Respond(Logged(@, "remove", req[p].id, FALSE), 500)]
          /\ UNCHANGED rows
    /\ UNCHANGED <<groups, blobs, uploads, created, gcreated, clock, started, listing>>

\* AssignFields with memory.special = special: no fallback to the stored value.
AssignFieldsSpecialOverwritten(memory, body) ==
    [ memory EXCEPT
        !.title = IF Truthy(body.title) THEN body.title ELSE @,
        !.date = IF Truthy(body.date) THEN body.date ELSE @,
        !.description = IF Truthy(body.description) THEN body.description ELSE @,
        !.special = body.special ]

\* memory.f = f || memory.f, for the four body fields.
AssignFields(memory, body) ==
    [ memory EXCEPT
        !.title = IF Truthy(body.title) THEN body.title ELSE @,
        !.date = IF Truthy(body.date) THEN body.date ELSE @,
        !.description = IF Truthy(body.description) THEN body.description ELSE @,
        !.special = IF Truthy(body.special) THEN body.special ELSE @ ]

\* PUT /api/memories/:id, after the upload middleware, up to its next await:
\* Memory.findById, the 404 check and the field assignments.
UpdateMemoryFind(p) ==
    /\ req[p].pc = "handler" /\ req[p].kind = "updateMemory"
    /\ \/ req' = [req EXCEPT ![p] = Respond(@, 500)]
       \/ /\ req[p].id \notin DOMAIN rows
          /\ req' = [req EXCEPT ![p] = Respond(@, 404)]
       \/ /\ req[p].id \in DOMAIN rows
          /\ req' = [req EXCEPT ![p] =
                [@ EXCEPT !.memory = AssignFields(rows[req[p].id], req[p].body),
                          !.loaded = rows[req[p].id],
                          !.pc = IF req[p].file # NoFile THEN "destroy" ELSE "save"]]
    /\ UNCHANGED <<rows, groups, blobs, uploads, created, gcreated, clock, started, listing>>

\* UpdateMemoryDestroy without the destroy call: the old blob is left behind.
UpdateMemoryKeepingOldBlob(p) ==
    /\ req[p].pc = "destroy" /\ req[p].kind = "updateMemory"
    /\ req' = [req EXCEPT ![p] =
          [@ EXCEPT !.memory = [@ EXCEPT !.imageUrl = Url(req[p].file),
                                         !.imagePublicId = req[p].file],
                    !.pc = "save"]]
    /\ UNCHANGED <<rows, groups, blobs, uploads, created, gcreated, clock, started, listing>>

\* if (req.file): await cloudinary.uploader.destroy(memory.imagePublicId), then
\* the in-memory document takes the new blob's url and public id.
UpdateMemoryDestroy(p) ==
    /\ req[p].pc = "destroy" /\ req[p].kind = "updateMemory"
    /\ \/ /\ blobs' = blobs \ {req[p].memory.imagePublicId}
          /\ req' = [req EXCEPT ![p] =
                [Logged(@, "destroy", req[p].memory.imagePublicId, TRUE) EXCEPT
                    !.memory = [@ EXCEPT !.imageUrl = Url(req[p].file),
                                         !.imagePublicId = req[p].file],
                    !.pc = "save"]]
       \/ /\ req' = [req EXCEPT ![p] =
                Respond(Logged(@, "destroy", req[p].memory.imagePublicId, FALSE), 500)]
          /\ UNCHANGED blobs
    /\ UNCHANGED <<rows, groups, uploads, created, gcreated, clock, started, listing>>

\* What document.save() writes: only the paths that differ from the loaded
\* document are $set on the stored one.
Saved(stored, loaded, memory) ==
    [f \in DOMAIN stored |-> IF memory[f] # loaded[f] THEN memory[f] ELSE stored[f]]

\* await memory.save() and the response. save() updates the stored document by
\* _id and never inserts; when the document is gone it either rejects
\* (DocumentNotFoundError) or resolves without effect, depending on the
\* Mongoose release.
UpdateMemorySave(p) ==
    /\ req[p].pc = "save" /\ req[p].kind = "updateMemory"
    /\ \/ /\ req[p].id \in DOMAIN rows
          /\ ValidMemory(req[p].memory)
          /\ rows' = [rows EXCEPT ![req[p].id] = Saved(@, req[p].loaded, req[p].memory)]
          /\ req' = [req EXCEPT ![p] = Respond(Logged(@, "save", req[p].id, TRUE), 200)]
       \/ /\ req[p].id \notin DOMAIN rows
          /\ \E code \in {200, 500} :
                req' = [req EXCEPT ![p] =
                    Respond([Logged(@, "save", req[p].id, code = 200) EXCEPT !.stale = TRUE], code)]
          /\ UNCHANGED rows
       \/ /\ req' = [req EXCEPT ![p] = Respond(Logged(@, "save", req[p].id, FALSE), 500)]
          /\ UNCHANGED rows
    /\ UNCHANGED <<groups, blobs, uploads, created, gcreated, clock, started, listing>>

\* A field the store holds as null.
Null == "null"

\* new Group({name, description, memoryIds: memoryIds || []}).
NewGroup(body, id) ==
    [ _id |-> id, name |-> body.name, description |-> body.description,
      memoryIds |-> IF body.memoryIds = Absent THEN <<>> ELSE body.memoryIds ]

\* POST /api/groups: groupSchema requires name.
CreateGroup(p) ==
    /\ req[p].pc = "handler" /\ req[p].kind = "createGroup"
    /\ LET doc == NewGroup(req[p].body, gcreated + 1) IN
       \/ /\ Truthy(doc.name)
          /\ groups' = groups @@ (doc._id :> doc)
          /\ gcreated' = gcreated + 1
          /\ req' = [req EXCEPT ![p] =
                Respond([Logged(@, "saveGroup", doc._id, TRUE) EXCEPT !.id = doc._id], 201)]
       \/ /\ req' = [req EXCEPT ![p] = Respond(Logged(@, "saveGroup", doc._id, FALSE), 500)]
          /\ UNCHANGED <<groups, gcreated>>
    /\ UNCHANGED <<rows, blobs, uploads, created, clock, started, listing>>

\* The update document {name, description, memoryIds} applied to a stored
\* group. A key whose value is undefined is either dropped from the update or
\* written as null, depending on the Mongoose release (omitUndefined).
UpdatedGroup(stored, body, omitUndefined) ==
    [f \in DOMAIN stored |->
        IF f = "_id" THEN stored[f]
        ELSE IF body[f] # Absent THEN body[f]
        ELSE IF omitUndefined THEN stored[f]
        ELSE Null]

\* PUT /api/groups/:id: one findByIdAndUpdate, null when no document matches.
UpdateGroup(p) ==
    /\ req[p].pc = "handler" /\ req[p].kind = "updateGroup"
    /\ \/ /\ req' = [req EXCEPT ![p] = Respond(@, 500)]
          /\ UNCHANGED groups
       \/ /\ req[p].id \notin DOMAIN groups
          /\ req' = [req EXCEPT ![p] = Respond(@, 404)]
          /\ UNCHANGED groups
       \/ /\ req[p].id \in DOMAIN groups
          /\ \E omitUndefined \in BOOLEAN :
                groups' = [groups EXCEPT ![req[p].id] =
                              UpdatedGroup(@, req[p].body, omitUndefined)]
          /\ req' = [req EXCEPT ![p] = Respond(Logged(@, "updateGroup", req[p].id, TRUE), 200)]
    /\ UNCHANGED <<rows, blobs, uploads, created, gcreated, clock, started, listing>>

\* DELETE /api/groups/:id: one findByIdAndDelete, null when no document matches.
DeleteGroup(p) ==
    /\ req[p].pc = "handler" /\ req[p].kind = "deleteGroup"
    /\ \/ /\ req' = [req EXCEPT ![p] = Respond(@, 500)]
          /\ UNCHANGED groups
       \/ /\ req[p].id \notin DOMAIN groups
          /\ req' = [req EXCEPT ![p] = Respond(@, 404)]
          /\ UNCHANGED groups
       \/ /\ req[p].id \in DOMAIN groups
          /\ groups' = [i \in DOMAIN groups \ {req[p].id} |-> groups[i]]
          /\ req' = [req EXCEPT ![p] = Respond(Logged(@, "removeGroup", req[p].id, TRUE), 200)]
    /\ UNCHANGED <<rows, blobs, uploads, created, gcreated, clock, started, listing>>

\* Descending with the sort direction reversed (sort({createdAt: 1})).
Ascending(s) == \A i, j \in 1..Len(s) : i < j => s[i].createdAt <= s[j].createdAt

\* Whether sequence s lists its documents by createdAt, newest first.
Descending(s) == \A i, j \in 1..Len(s) : i < j => s[i].createdAt >= s[j].createdAt

\* Memory.find().sort({createdAt: -1}): every stored document once, ordered by
\* the sort key; the store fixes no order among documents with equal keys.
FindSorted(coll) ==
    { [i \in 1..Cardinality(DOMAIN coll) |-> coll[f[i]]] :
        f \in { g \in [1..Cardinality(DOMAIN coll) -> DOMAIN coll] :
                  /\ \A i, j \in DOMAIN g : i # j => g[i] # g[j]
                  /\ Descending([i \in DOMAIN g |-> coll[g[i]]]) } }

\* GET /api/memories: a single store call and the response.
ListMemories ==
    /\ started < MaxRequests
    /\ started' = started + 1
    /\ \/ \E found \in FindSorted(rows) :
             listing' = [status |-> 200, body |-> found, of |-> rows]
       \/ listing' = [status |-> 500, body |-> <<>>, of |-> rows]
    /\ req' = [q \in Slots |-> [req[q] EXCEPT !.last = FALSE]]
    /\ UNCHANGED <<rows, groups, blobs, uploads, created, gcreated, clock>>

Next ==
    \/ ListMemories
    \/ \E p \in Slots : CreateGroup(p)
    \/ \E p \in Slots : UpdateGroup(p)
    \/ \E p \in Slots : DeleteGroup(p)
    \/ \E p \in Slots : Receive(p)
    \/ \E p \in Slots : Upload(p)
    \/ \E p \in Slots : CreateMemory(p)
    \/ \E p \in Slots : DeleteMemoryFind(p)
    \/ \E p \in Slots : DeleteMemoryDestroy(p)
    \/ \E p \in Slots : DeleteMemoryRemove(p)
    \/ \E p \in Slots : UpdateMemoryFind(p)
    \/ \E p \in Slots : UpdateMemoryDestroy(p)
    \/ \E p \in Slots : UpdateMemorySave(p)

Spec == Init /\ [][Next]_vars
(***************************************************************************)
(* Vocabulary of the properties.                                           *)
(***************************************************************************)

Done(p) == req[p].pc = "done"

\* The request in slot p ran with no other request in flight, and no request
\* has been received since: the store is as this request left it.
Alone(p) == ~req[p].concurrent /\ req[p].last

\* The calls the request in slot p made to the media adapter, in order.
MediaCalls(p) == SelectSeq(req[p].calls, LAMBDA c : c.op \in {"store", "destroy"})

OpsOf(calls) == [i \in DOMAIN calls |-> calls[i].op]

\* Public ids for which the request in slot p called the adapter's delete.
Destroyed(p) == { req[p].calls[i].arg : i \in { j \in DOMAIN req[p].calls :
                                                   req[p].calls[j].op = "destroy" } }

\* The request in slot p called the adapter's delete and the call failed.
DestroyFailed(p) ==
    \E i \in DOMAIN req[p].calls : req[p].calls[i].op = "destroy" /\ ~req[p].calls[i].ok

\* The Memory fields an Update with only a description must leave alone.
KeptFields == {"title", "date", "special", "imageUrl", "imagePublicId"}

\* C1: a finished Delete(Memory) that found its row and whose blob delete
\* failed has left no row with that id in the record store.
C1_DeleteRemovesRowWhenBlobDeleteFails ==
    \A p \in Slots :
        ( /\ Done(p) /\ req[p].kind = "deleteMemory"
          /\ req[p].loaded # NoDoc /\ DestroyFailed(p) )
        => req[p].id \notin DOMAIN rows

C3_AbsentIdIs404WithoutMutation ==
    \A p \in Slots :
        ( /\ Done(p)
          /\ req[p].kind \in {"updateMemory", "deleteMemory", "updateGroup", "deleteGroup"}
          /\ \/ req[p].id = UnknownId
             \/ /\ req[p].kind \in {"updateMemory", "deleteMemory"}
                /\ ~req[p].concurrent
                /\ req[p].id \notin DOMAIN req[p].before.rows
          /\ req[p].status # 500 )
        => req[p].status = 404 /\ req[p].calls = <<>>

\* C4: every stored Memory with a non-empty imageUrl has a live blob for its
\* imagePublicId, unless a request on that Memory is still in progress.
C4_StoredImageHasLiveBlob ==
    \A id \in DOMAIN rows :
        rows[id].imageUrl # <<>>
        => \/ rows[id].imagePublicId \in blobs
           \/ \E p \in Slots :
                /\ InFlight(p) /\ req[p].id = id
                /\ req[p].kind \in {"deleteMemory", "updateMemory"}

\* C5: a Create(Memory) without an image makes no call to the media adapter or
\* the record store, answers 400, and leaves rows and blobs as they were.
C5_CreateWithoutImage ==
    \A p \in Slots :
        (req[p].kind = "createMemory" /\ ~req[p].image)
        => /\ req[p].calls = <<>>
           /\ Done(p) => req[p].status = 400
           /\ Alone(p) => rows = req[p].before.rows /\ blobs = req[p].before.blobs

\* A Create(Memory) without an image has completed.
C5_Witness ==
    \E p \in Slots : Done(p) /\ req[p].kind = "createMemory" /\ ~req[p].image /\ Alone(p)

\* C6: a finished Update(Memory) on an existing id carrying only a description
\* and no image made no call to the media adapter and left the row's title,
\* date, special, imageUrl and imagePublicId as they were before the request.
C6_DescriptionOnlyUpdate ==
    \A p \in Slots :
        ( /\ Done(p) /\ req[p].kind = "updateMemory" /\ ~req[p].image
          /\ Truthy(req[p].body.description)
          /\ \A f \in {"title", "date", "special"} : req[p].body[f] = Absent
          /\ req[p].id \in DOMAIN req[p].before.rows )
        => /\ MediaCalls(p) = <<>>
           /\ Alone(p) =>
                /\ req[p].id \in DOMAIN rows
                /\ \A f \in KeptFields : rows[req[p].id][f] = req[p].before.rows[req[p].id][f]

\* A description-only Update succeeded and changed the stored description.
C6_Witness ==
    \E p \in Slots :
        /\ Done(p) /\ req[p].kind = "updateMemory" /\ ~req[p].image /\ Alone(p)
        /\ req[p].body.title = Absent /\ req[p].status = 200
        /\ req[p].id \in DOMAIN rows
        /\ rows[req[p].id].description = req[p].body.description
        /\ rows[req[p].id].description # req[p].before.rows[req[p].id].description

\* The store call and the persist call of the request in slot p succeeded.
StoredAndSaved(p) ==
    /\ \E i \in DOMAIN req[p].calls : req[p].calls[i].op = "store" /\ req[p].calls[i].ok
    /\ \E i \in DOMAIN req[p].calls : req[p].calls[i].op = "save" /\ req[p].calls[i].ok

\* C7: a finished Create(Memory) whose store and persist calls succeeded
\* answered 201, and the row it persisted carries the url and the public id
\* the media adapter returned for that upload.
C7_CreatedRowMatchesAdapter ==
    \A p \in Slots :
        (Done(p) /\ req[p].kind = "createMemory" /\ StoredAndSaved(p))
        => /\ req[p].status = 201
           /\ req[p].memory.imagePublicId = MediaCalls(p)[1].arg
           /\ req[p].memory.imageUrl = Url(MediaCalls(p)[1].arg)
           /\ Alone(p) =>
                /\ req[p].id \in DOMAIN rows
                /\ rows[req[p].id] = req[p].memory
                /\ req[p].id \notin DOMAIN req[p].before.rows

\* A Create(Memory) with an image has been stored, persisted and answered.
C7_Witness ==
    \E p \in Slots :
        /\ Done(p) /\ req[p].kind = "createMemory" /\ StoredAndSaved(p) /\ Alone(p)
        /\ req[p].id \in DOMAIN rows

\* C8 as stated: a successful List(Memory) returns its entries with each
\* createdAt greater than the next entry's.
C8_StrictlyDescending ==
    listing.status = 200
    => \A i \in 1..(Len(listing.body) - 1) :
          listing.body[i].createdAt > listing.body[i + 1].createdAt

\* C8 amended: a successful List(Memory) returns every stored row exactly
\* once, each entry's createdAt greater than or equal to the next entry's.
C8_NonIncreasing ==
    listing.status = 200
    => /\ Len(listing.body) = Cardinality(DOMAIN listing.of)
       /\ \A id \in DOMAIN listing.of :
             \E i \in DOMAIN listing.body : listing.body[i] = listing.of[id]
       /\ \A i \in 1..(Len(listing.body) - 1) :
             listing.body[i].createdAt >= listing.body[i + 1].createdAt

\* A successful List(Memory) returned two rows with the same createdAt.
C8_Witness ==
    /\ listing.status = 200
    /\ \E i, j \in DOMAIN listing.body :
          i # j /\ listing.body[i].createdAt = listing.body[j].createdAt

\* C9, its second half: when an Update with a new image and a Delete on the
\* same Memory id each ran with no other request in flight, the adapter's
\* delete was not called twice for one imagePublicId and the Update's save
\* was not issued on a removed row.
C9_NoDoubleDeleteWhenSequential ==
    \A p, q \in Slots :
        ( /\ Done(p) /\ req[p].kind = "updateMemory" /\ req[p].file # NoFile
          /\ Done(q) /\ req[q].kind = "deleteMemory"
          /\ req[p].id = req[q].id
          /\ ~req[p].concurrent /\ ~req[q].concurrent )
        => Destroyed(p) \cap Destroyed(q) = {} /\ ~req[p].stale

\* C10: a finished Memory Create, Update or Delete that ran without
\* concurrent requests and answered 500 left the Memory rows as they were.
C10_FailureLeavesRows ==
    \A p \in Slots :
        ( /\ Done(p) /\ Alone(p) /\ req[p].status = 500
          /\ req[p].kind \in {"createMemory", "updateMemory", "deleteMemory"} )
        => rows = req[p].before.rows

\* An Update that had already changed fields of its in-memory copy answered
\* 500 after a failed media or store call.
C10_Witness ==
    \E p \in Slots :
        /\ Done(p) /\ Alone(p) /\ req[p].status = 500
        /\ req[p].kind = "updateMemory"
        /\ req[p].loaded # NoDoc /\ req[p].memory # req[p].loaded
====
